---- MODULE Spec2Model ----
(***************************************************************************)
(* cirque: a producer/consumer circular queue built from two llq SPSC      *)
(* queues (src/src/lib.rs).  The non-realtime Producer pushes items on the *)
(* forward queue and owns a free-list of recycled nodes; the realtime      *)
(* Consumer pops items, may mutate them, and hands their nodes back on the *)
(* backward queue.  The two handles run on two threads: every llq          *)
(* push/pop is one atomic step, and the handlers that make two queue       *)
(* operations (Producer::push, Consumer::drain, the loop of                *)
(* Producer::drain_and_recycle) are split at those operations.             *)
(***************************************************************************)
EXTENDS Integers, Sequences, FiniteSets

\* ------------------------------------------------------------------ bounds
\* Number of Producer::push calls explored (each push carries a fresh item).
MaxPush == 3
\* Largest recycling capacity passed to new_producer_consumer and
\* tune_recycling_capacity.
MaxCap == 2
\* Scripted runs: largest first burst of pushes, and pushes in the whole run.
MaxBurst == 3
MaxScript == 6
\* Endless runs: nodes allocated in the whole run.
MaxLive == 2

\* Option::None of a node; the nodes are 1, 2, ...
NoNode == 0

Max(a, b) == IF a >= b THEN a ELSE b
MaxItems == Max(MaxPush, MaxScript)
Nodes == 1..MaxItems
Caps == 0..MaxCap

\* ------------------------------------------------------------------- state
VARIABLES
    producer_tx,        \* forward queue (Producer.tx -> Consumer.rx): Seq(Nodes)
    consumer_tx,        \* backward queue (Consumer.tx -> Producer.rx): Seq(Nodes)
    recycled_nodes,     \* Producer.recycled_nodes: the free-list, a Vec of nodes
    recycling_capacity, \* Producer.recycling_capacity
    vec_capacity,       \* recycled_nodes.capacity(): the Vec's storage capacity
    payload,            \* the item each node holds
    allocated,          \* number of Node::new calls so far (nodes 1..allocated)
    dropped,            \* nodes that were destroyed
    leased,             \* nodes held by outstanding ConsumableItems
    p_pc,               \* Producer thread: "idle" | "push" | "drain_and_recycle"
    p_done,             \* last Producer operation that returned
    p_node,             \* the `node` local of Producer::push (0: none)
    src,                \* where new_node took the node of the current/last push
    replaced,           \* the item std::mem::replace took out of that node
    p_stat,             \* the current/last Producer call: free-list length at
                        \* entry, Recycler::recycle calls and nodes dropped in it
    panicked,           \* a debug_assert! of tune_recycling_capacity failed
    c_pc,               \* Consumer thread: "idle" | "drain_pop" | "drain_push"
    c_done,             \* what the latest step of the run did, if it was the
                        \* Consumer's: "pop_none" for a pop that found nothing,
                        \* "discard" for a leased item dropped; else "none"
    c_node,             \* the `node` local of Consumer::drain (0: none)
    pushed,             \* number of items passed to Producer::push so far
    consumed,           \* identities of the items taken off the forward queue
                        \* (by Consumer::pop or Consumer::drain), in order
    scen                \* script position of the scenario specification

queues == <<producer_tx, consumer_tx>>
freeList == <<recycled_nodes, recycling_capacity, vec_capacity, panicked>>
heap == <<payload, allocated, dropped>>
prodLocal == <<p_pc, p_done, p_node, src, replaced, p_stat>>
consHeld == <<c_pc, c_node, leased>>
consLocal == <<consHeld, c_done>>
history == <<pushed, consumed>>
progVars == <<queues, freeList, heap, prodLocal, consLocal, history>>
vars == <<progVars, scen>>

\* ------------------------------------------------------------------- items
\* The item type T of the harness: an identity, whether the consumer wrote
\* to it through the leased item, and whether the recycler has reset it.
NoItem == [id |-> 0, mutated |-> FALSE, recycled |-> FALSE]
NewItem(k) == [id |-> k, mutated |-> FALSE, recycled |-> FALSE]
Items == [id : 0..MaxItems, mutated : BOOLEAN, recycled : BOOLEAN]

\* Fault: drain_and_recycle keeps the node without calling the recycler.
RecycleSkipped(item) == item
\* Recycler::recycle(&mut item): resets the item in place, which undoes what
\* the consumer wrote to it.
Recycle(item) == [item EXCEPT !.recycled = TRUE, !.mutated = FALSE]

\* ConsumableItem::as_mut / deref_mut: the consumer writes to the item.
Mutate(item) == [item EXCEPT !.mutated = TRUE]

\* --------------------------------------------------------------- llq queue
\* Fault: a push that links the node at the head (a stack, not a queue).
QueuePushFront(q, n) == <<n>> \o q
\* llq::Producer::push appends at the tail.
QueuePush(q, n) == Append(q, n)
\* llq::Consumer::pop returns the head node, or None on an empty queue, and
\* leaves the rest of the queue.
\* Fault: a pop that hands out the node but leaves it linked.
QueueRestKeeps(q) == q
\* Fault: a pop that hands out a stale node when the queue is empty.
QueuePopStale(q) == IF q = <<>> THEN 1 ELSE Head(q)
\* Fault: a pop that hands out the newest node instead of the oldest.
QueuePopNewest(q) == IF q = <<>> THEN NoNode ELSE q[Len(q)]
QueuePop(q) == IF q = <<>> THEN NoNode ELSE Head(q)
QueueRest(q) == IF q = <<>> THEN q ELSE Tail(q)

\* --------------------------------------------------------------------- Vec
\* Vec::pop takes the last element.
VecLast(v) == v[Len(v)]
VecPop(v) == SubSeq(v, 1, Len(v) - 1)
\* Fault: truncate unlinks the excess nodes without freeing them.
TruncatedLeaks(v, n) == {}
\* Vec::truncate(n) keeps the first n elements and drops the rest.
Truncate(v, n) == SubSeq(v, 1, n)
Truncated(v, n) == {v[i] : i \in (n + 1)..Len(v)}
\* Vec::with_capacity(n)
WithCapacity(n) == n
\* Vec::reserve(additional): no-op when the spare capacity suffices, else
\* grows to at least len + additional (exactly, or amortised).
Reserve(cap, len, additional) ==
    IF cap - len >= additional
    THEN {cap}
    ELSE {len + additional, Max(Max(2 * cap, len + additional), 4)}
\* Vec::push grows the storage only when it is full.
PushCapacity(cap, len) == IF len < cap THEN {cap} ELSE Reserve(cap, len, 1)

\* -------------------------------------------------------------------- Init
\* new_producer_consumer(recycler, recycling_capacity)
NewProducerConsumer(cap) ==
    /\ producer_tx = <<>>
    /\ consumer_tx = <<>>
    /\ recycled_nodes = <<>>
    /\ recycling_capacity = cap
    /\ vec_capacity = WithCapacity(cap)
    /\ payload = [n \in Nodes |-> NoItem]
    /\ allocated = 0
    /\ dropped = {}
    /\ leased = {}
    /\ p_pc = "idle"
    /\ p_done = "none"
    /\ p_node = NoNode
    /\ src = "none"
    /\ replaced = NoItem
    /\ p_stat = [len |-> 0, calls |-> 0, drops |-> 0]
    /\ panicked = FALSE
    /\ c_pc = "idle"
    /\ c_done = "none"
    /\ c_node = NoNode
    /\ pushed = 0
    /\ consumed = <<>>

\* No script: "off" in the free-running specification.
NoScript == [phase |-> "off"]
\* The notes of a scripted run as it starts.
FreshScript == [phase |-> "fill", n |-> 0, first |-> 0, drains |-> 0,
                early |-> FALSE, pool |-> {}, srcs |-> {},
                fwd0 |-> <<>>, bwd0 |-> <<>>, pay0 |-> <<>>, leased0 |-> {},
                live0 |-> {}, moved |-> <<>>]

Init ==
    /\ \E cap \in Caps : NewProducerConsumer(cap)
    /\ scen = NoScript

\* Pushes explored: MaxPush when free-running, MaxScript in a scripted run.
PushLimit == IF scen.phase = "off" THEN MaxPush ELSE MaxScript

\* An endless run ("live") pushes without limit.  To keep its states finite
\* it records no history (pushed, consumed, p_stat stay as they are), every
\* item it pushes has the same identity, and it allocates MaxLive nodes at most.
Tracking == scen.phase # "live"
Kept(old, new) == IF Tracking THEN new ELSE old

\* ---------------------------------------------------------------- Producer
\* Fault: new_node forgets the free-list.
NewNodeSourceSkipsFreeList ==
    IF QueuePop(consumer_tx) # NoNode THEN "rx" ELSE "alloc"
\* Fault: new_node forgets the backward queue.
NewNodeSourceSkipsRx ==
    IF recycled_nodes # <<>> THEN "free" ELSE "alloc"
\* Fault: new_node asks the backward queue first.
NewNodeSourceRxFirst ==
    IF QueuePop(consumer_tx) # NoNode THEN "rx"
    ELSE IF recycled_nodes # <<>> THEN "free"
    ELSE "alloc"
\* Producer::new_node, line 77: recycled_nodes.pop().or_else(|| self.rx.pop())
NewNodeSource ==
    IF recycled_nodes # <<>> THEN "free"
    ELSE IF QueuePop(consumer_tx) # NoNode THEN "rx"
    ELSE "alloc"

\* The node new_node returns: the popped one, or Node::new's.
NewNodeOf(source) ==
    CASE source = "free" -> VecLast(recycled_nodes)
      [] source = "rx" -> QueuePop(consumer_tx)
      [] source = "alloc" -> allocated + 1

\* Fault: new_node hands out the node without writing the item into it.
ReplaceSkipped(node, item) == payload
\* new_node, lines 78 and 82: std::mem::replace(&mut *node, item), or
\* Node::new(item): afterwards the node holds the item.
Replace(node, item) == [payload EXCEPT ![node] = item]

\* Producer::push, first half: `let node = self.new_node(item)`.  The node
\* comes from the free-list, else from the backward queue, else from
\* Node::new; std::mem::replace writes the item into a reused node.
ProducerNewNode ==
    /\ p_pc = "idle"
    /\ ~panicked
    /\ IF Tracking THEN pushed < PushLimit
                   ELSE NewNodeSource # "alloc" \/ allocated < MaxLive
    /\ LET item == NewItem(Kept(1, pushed + 1))
           source == NewNodeSource
           node == NewNodeOf(source)
       IN  /\ recycled_nodes' =
                  IF source = "free" THEN VecPop(recycled_nodes) ELSE recycled_nodes
           /\ consumer_tx' =
                  IF source = "rx" THEN QueueRest(consumer_tx) ELSE consumer_tx
           /\ allocated' = IF source = "alloc" THEN allocated + 1 ELSE allocated
           /\ replaced' = IF source = "alloc" THEN NoItem ELSE payload[node]
           /\ payload' = Replace(node, item)
           /\ src' = source
           /\ p_node' = node
    /\ pushed' = Kept(pushed, pushed + 1)
    /\ p_pc' = "push"
    /\ p_done' = "none"
    /\ p_stat' = Kept(p_stat, [len |-> Len(recycled_nodes), calls |-> 0, drops |-> 0])
    /\ c_done' = "none"
    /\ UNCHANGED <<producer_tx, recycling_capacity, vec_capacity, panicked,
                   dropped, c_pc, c_node, leased, consumed>>

\* Producer::push, second half: `self.tx.push(node)`.
ProducerPush ==
    /\ p_pc = "push"
    /\ producer_tx' = QueuePush(producer_tx, p_node)
    /\ p_node' = NoNode
    /\ p_pc' = "idle"
    /\ p_done' = "push"
    /\ UNCHANGED <<consumer_tx, freeList, heap, src, replaced, p_stat,
                   consHeld, history>>
    /\ c_done' = "none"

\* The two debug_assert! lines that end tune_recycling_capacity.
DebugAssertLen(len, cap) == len <= cap
DebugAssertCapacity(vcap, cap) == vcap >= cap

\* Fault: tune_recycling_capacity never truncates.
TunedNodesKeeps(n) == recycled_nodes
\* The free-list after tune_recycling_capacity(n), lines 89-91.
TunedNodes(n) ==
    IF n < Len(recycled_nodes) THEN Truncate(recycled_nodes, n) ELSE recycled_nodes

\* Fault: tune_recycling_capacity never reserves.
TunedCapacityNoReserve(n) == {vec_capacity}
\* The storage capacities tune_recycling_capacity(n) may leave, lines 89-94.
TunedCapacity(n) ==
    IF n < Len(recycled_nodes)
    THEN {vec_capacity}
    ELSE Reserve(vec_capacity, Len(recycled_nodes), n - Len(recycled_nodes))

\* Producer::tune_recycling_capacity(n): all of it is local to the Producer.
TuneRecyclingCapacity(n) ==
    /\ p_pc = "idle"
    /\ ~panicked
    /\ recycling_capacity' = n
    /\ p_done' = "tune"
    /\ UNCHANGED <<queues, allocated, p_pc, p_node, consHeld, history>>
    /\ c_done' = "none"
    /\ recycled_nodes' = TunedNodes(n)
    /\ vec_capacity' \in TunedCapacity(n)
    /\ LET gone == IF n < Len(recycled_nodes) THEN Truncated(recycled_nodes, n) ELSE {}
       IN  /\ dropped' = dropped \cup gone
           /\ payload' = [m \in Nodes |-> IF m \in gone THEN NoItem ELSE payload[m]]
    /\ panicked' = ~(/\ DebugAssertLen(Len(recycled_nodes'), recycling_capacity')
                     /\ DebugAssertCapacity(vec_capacity', recycling_capacity'))
    /\ src' = "none"
    /\ replaced' = NoItem
    /\ p_stat' = Kept(p_stat, [len |-> Len(recycled_nodes), calls |-> 0,
                                drops |-> Len(recycled_nodes) - Len(recycled_nodes')])

\* Faults: the capacity test off by one, and left out.
HasRoomOffByOne == Len(recycled_nodes) <= recycling_capacity
HasRoomAlways == TRUE
\* Fault: drain_and_recycle retains nothing.
HasRoomNever == FALSE
\* drain_and_recycle, line 105: the free-list has room for one more node.
HasRoom == Len(recycled_nodes) < recycling_capacity

\* Fault: drain_and_recycle looks at the head of the backward queue without
\* unlinking it.
RxPoppedKeeps == consumer_tx
\* The backward queue after the `self.rx.pop()` of drain_and_recycle, line 104.
RxPopped == QueueRest(consumer_tx)

\* Producer::drain_and_recycle, one turn of `while let Some(node) =
\* self.rx.pop()`: the call returns on None, else the node is recycled into
\* the free-list or dropped.  The first turn also enters the call.
DrainAndRecycle ==
    /\ p_pc \in {"idle", "drain_and_recycle"}
    /\ ~panicked
    /\ src' = IF p_pc = "idle" THEN "none" ELSE src
    /\ replaced' = IF p_pc = "idle" THEN NoItem ELSE replaced
    /\ LET stat == IF p_pc = "idle"
                   THEN [len |-> Len(recycled_nodes), calls |-> 0, drops |-> 0]
                   ELSE p_stat
           node == QueuePop(consumer_tx)
       IN  IF node = NoNode
           THEN /\ p_pc' = "idle"
                /\ p_done' = "drain_and_recycle"
                /\ p_stat' = Kept(p_stat, stat)
                /\ UNCHANGED <<consumer_tx, recycled_nodes, vec_capacity, payload, dropped>>
           ELSE /\ consumer_tx' = RxPopped
                /\ p_pc' = "drain_and_recycle"
                /\ p_done' = "none"
                /\ IF HasRoom
                   THEN /\ payload' = [payload EXCEPT ![node] = Recycle(payload[node])]
                        /\ p_stat' = Kept(p_stat, [stat EXCEPT !.calls = @ + 1])
                        /\ recycled_nodes' = Append(recycled_nodes, node)
                        /\ vec_capacity' \in PushCapacity(vec_capacity, Len(recycled_nodes))
                        /\ UNCHANGED dropped
                   ELSE /\ dropped' = dropped \cup {node}
                        /\ payload' = [payload EXCEPT ![node] = NoItem]
                        /\ p_stat' = Kept(p_stat, [stat EXCEPT !.drops = @ + 1])
                        /\ UNCHANGED <<recycled_nodes, vec_capacity>>
    /\ UNCHANGED <<producer_tx, recycling_capacity, panicked, allocated, p_node,
                   consHeld, history>>
    /\ c_done' = "none"

\* ---------------------------------------------------------------- Consumer
\* Fault: push_back keeps the leased item alive.
UnwrapKeeps(node) == leased
\* Fault: pop hands the item out by value and lets go of its node.
WrapForgets(node) == leased
\* ConsumableItem(node): the node becomes a leased item.
Wrap(node) == leased \cup {node}
\* `let ConsumableItem(node) = consumed_item`: the leased item is consumed.
Unwrap(node) == leased \ {node}

\* Consumer::pop: self.rx.pop().map(ConsumableItem)
ConsumerPop ==
    /\ c_pc = "idle"
    /\ LET node == QueuePop(producer_tx)
       IN  IF node = NoNode
           THEN /\ c_done' = "pop_none"
                /\ UNCHANGED <<producer_tx, leased, consumed>>
           ELSE /\ producer_tx' = QueueRest(producer_tx)
                /\ leased' = Wrap(node)
                /\ consumed' = Kept(consumed, Append(consumed, payload[node].id))
                /\ c_done' = "none"
    /\ UNCHANGED <<consumer_tx, freeList, heap, prodLocal, c_pc, c_node, pushed>>

\* Writing to the item through ConsumableItem::as_mut / deref_mut.
ConsumerMutate(n) ==
    /\ c_pc = "idle"
    /\ n \in leased
    /\ ~payload[n].mutated
    /\ payload' = [payload EXCEPT ![n] = Mutate(payload[n])]
    /\ c_done' = "none"
    /\ UNCHANGED <<queues, freeList, allocated, dropped, prodLocal, c_pc, c_node,
                   leased, history>>

\* Consumer::push_back(consumed_item)
ConsumerPushBack(n) ==
    /\ c_pc = "idle"
    /\ n \in leased
    /\ leased' = Unwrap(n)
    /\ consumer_tx' = QueuePush(consumer_tx, n)
    /\ c_done' = "none"
    /\ UNCHANGED <<producer_tx, freeList, heap, prodLocal, c_pc, c_node, history>>

\* A ConsumableItem that goes out of scope: its llq::Node is freed.
ConsumerDiscard(n) ==
    /\ c_pc = "idle"
    /\ n \in leased
    /\ leased' = leased \ {n}
    /\ dropped' = dropped \cup {n}
    /\ payload' = [payload EXCEPT ![n] = NoItem]
    /\ c_done' = "discard"
    /\ UNCHANGED <<queues, freeList, allocated, prodLocal, c_pc, c_node, history>>

\* Consumer::drain, `while let Some(node) = self.rx.pop()`: the call returns
\* on None.  The first turn also enters the call.
ConsumerDrainPop ==
    /\ c_pc \in {"idle", "drain_pop"}
    /\ LET node == QueuePop(producer_tx)
       IN  IF node = NoNode
           THEN /\ c_pc' = "idle"
                /\ c_done' = "none"
                /\ UNCHANGED <<producer_tx, c_node, consumed>>
           ELSE /\ producer_tx' = QueueRest(producer_tx)
                /\ c_node' = node
                /\ c_pc' = "drain_push"
                /\ c_done' = "none"
                /\ consumed' = Kept(consumed, Append(consumed, payload[node].id))
    /\ UNCHANGED <<consumer_tx, freeList, heap, prodLocal, leased, pushed>>

\* Consumer::drain, the loop body: self.tx.push(node)
ConsumerDrainPush ==
    /\ c_pc = "drain_push"
    /\ consumer_tx' = QueuePush(consumer_tx, c_node)
    /\ c_node' = NoNode
    /\ c_pc' = "drain_pop"
    /\ UNCHANGED <<producer_tx, freeList, heap, prodLocal, c_done, leased, history>>

\* ------------------------------------------------------------ specification
\* Two threads, any interleaving of their steps.
Next ==
    \/ ProducerNewNode /\ UNCHANGED scen
    \/ ProducerPush /\ UNCHANGED scen
    \/ (\E n \in Caps : TuneRecyclingCapacity(n)) /\ UNCHANGED scen
    \/ DrainAndRecycle /\ UNCHANGED scen
    \/ ConsumerPop /\ UNCHANGED scen
    \/ (\E n \in Nodes : ConsumerMutate(n)) /\ UNCHANGED scen
    \/ (\E n \in Nodes : ConsumerPushBack(n)) /\ UNCHANGED scen
    \/ (\E n \in Nodes : ConsumerDiscard(n)) /\ UNCHANGED scen
    \/ ConsumerDrainPop /\ UNCHANGED scen
    \/ ConsumerDrainPush /\ UNCHANGED scen

Spec == Init /\ [][Next]_vars

\* Endless runs: the Producer may push for ever.  A thread that is inside a
\* call keeps being scheduled, so the call's next step is eventually taken;
\* nothing obliges a thread to start a call.
InitLive ==
    /\ \E cap \in Caps : NewProducerConsumer(cap)
    /\ scen = [NoScript EXCEPT !.phase = "live"]
ProducerRuns ==
    /\ p_pc # "idle"
    /\ ProducerPush \/ DrainAndRecycle
    /\ UNCHANGED scen
ConsumerRuns ==
    /\ c_pc # "idle"
    /\ ConsumerDrainPop \/ ConsumerDrainPush
    /\ UNCHANGED scen
SpecLive ==
    /\ InitLive
    /\ [][Next]_vars
    /\ WF_vars(ProducerRuns)
    /\ WF_vars(ConsumerRuns)

TypeOK ==
    /\ producer_tx \in Seq(Nodes)
    /\ consumer_tx \in Seq(Nodes)
    /\ recycled_nodes \in Seq(Nodes)
    /\ recycling_capacity \in Caps
    /\ vec_capacity \in Nat
    /\ payload \in [Nodes -> Items]
    /\ allocated \in 0..MaxItems
    /\ dropped \subseteq Nodes
    /\ leased \subseteq Nodes
    /\ p_pc \in {"idle", "push", "drain_and_recycle"}
    /\ c_pc \in {"idle", "drain_pop", "drain_push"}
    /\ p_node \in 0..MaxItems
    /\ c_node \in 0..MaxItems
    /\ pushed \in 0..MaxItems
    /\ panicked \in BOOLEAN

\* ------------------------------------------------------------ scripted runs
\* A test of the channel, run on a fresh channel of any capacity:
\*   fill    n pushes, no pop in between;
\*   take    the consumer pops all n items;
\*   give    the consumer pushes all of them back, unmodified, while the
\*           producer may call drain_and_recycle;
\*   refill  further pushes, no pop in between;
\*   retake  the consumer pops until the forward queue is empty;
\*   flush   or the consumer, after any number of those pops, calls drain
\*           while the producer may call drain_and_recycle but does not push.
InitScenario ==
    /\ \E cap \in Caps : NewProducerConsumer(cap)
    /\ \E n \in 1..MaxBurst : scen = [FreshScript EXCEPT !.n = n]

ScriptFill ==
    /\ scen.phase = "fill"
    /\ \/ pushed < scen.n /\ ProducerNewNode
       \/ ProducerPush
    /\ scen' = IF p_pc' = "idle" /\ pushed' = scen.n
               THEN [scen EXCEPT !.phase = "take", !.first = Head(producer_tx')]
               ELSE scen

ScriptTake ==
    /\ scen.phase = "take"
    /\ ConsumerPop
    /\ scen' = IF producer_tx' = <<>> THEN [scen EXCEPT !.phase = "give"] ELSE scen

ScriptGive ==
    /\ scen.phase = "give"
    /\ \E n \in Nodes : ConsumerPushBack(n)
    /\ UNCHANGED scen

\* The one drain_and_recycle call of the run, during "give": `early` when it
\* starts before every item is back, `pool` the free-list it leaves.
ScriptRecycle ==
    /\ scen.phase = "give"
    /\ p_pc = "drain_and_recycle" \/ scen.drains = 0
    /\ DrainAndRecycle
    /\ scen' = [scen EXCEPT
                   !.early = @ \/ (p_pc = "idle" /\ leased # {}),
                   !.drains = IF p_pc' = "idle" THEN @ + 1 ELSE @,
                   !.pool = IF p_pc' = "idle"
                            THEN {recycled_nodes'[i] : i \in 1..Len(recycled_nodes')}
                            ELSE @]

ScriptRefill ==
    /\ \/ scen.phase = "give" /\ leased = {} /\ p_pc = "idle"
       \/ scen.phase = "refill"
    /\ \/ ProducerNewNode /\ scen' = [scen EXCEPT !.phase = "refill",
                                                  !.srcs = @ \cup {src'}]
       \/ ProducerPush /\ UNCHANGED scen

ScriptRetake ==
    /\ \/ scen.phase = "refill" /\ p_pc = "idle"
       \/ scen.phase = "retake"
    /\ producer_tx # <<>>
    /\ ConsumerPop
    /\ scen' = [scen EXCEPT !.phase = IF producer_tx' = <<>> THEN "done" ELSE "retake"]

\* Instead of popping on, the consumer calls drain; no push runs while it
\* does.  The script notes the channel as drain finds it and the nodes drain
\* pushes back.
ScriptFlush ==
    /\ \/ scen.phase \in {"refill", "retake"} /\ p_pc = "idle" /\ c_pc = "idle"
       \/ scen.phase = "flush"
    /\ LET at == IF scen.phase = "flush" THEN scen
                 ELSE [scen EXCEPT !.phase = "flush",
                                   !.fwd0 = producer_tx, !.bwd0 = consumer_tx,
                                   !.pay0 = payload, !.leased0 = leased,
                                   !.live0 = (1..allocated) \ dropped]
       IN  \/ /\ ConsumerDrainPop
              /\ scen' = [at EXCEPT !.phase = IF c_pc' = "idle" THEN "flushed"
                                                                ELSE "flush"]
           \/ /\ ConsumerDrainPush
              /\ scen' = [at EXCEPT !.moved = Append(@, c_node)]
\* The producer may run drain_and_recycle while the consumer drains.
ScriptSweep ==
    /\ scen.phase = "flush"
    /\ p_pc = "drain_and_recycle" \/ consumer_tx # <<>>
    /\ DrainAndRecycle
    /\ UNCHANGED scen

NextScenario ==
    \/ ScriptFill
    \/ ScriptTake
    \/ ScriptGive
    \/ ScriptRecycle
    \/ ScriptRefill
    \/ ScriptRetake
    \/ ScriptFlush
    \/ ScriptSweep

SpecScenario == InitScenario /\ [][NextScenario]_vars

\* ------------------------------------------------------------------ helpers
SeqToSet(q) == {q[i] : i \in 1..Len(q)}
Count(q, n) == Cardinality({i \in 1..Len(q) : q[i] = n})
NoDup(q) == \A i, j \in 1..Len(q) : i # j => q[i] # q[j]
Iota(n) == [i \in 1..n |-> i]
\* The identities of the items a queue holds, head first.
ItemsOf(q) == [i \in 1..Len(q) |-> payload[q[i]].id]
\* The item of a push that has its node but has not enqueued it yet.
InFlight == IF p_pc = "push" THEN <<payload[p_node].id>> ELSE <<>>
\* The nodes that exist: allocated and not destroyed.
Live == (1..allocated) \ dropped
\* Number of owners of a node among the forward queue, the backward queue,
\* the free-list and the leased items.
OwnerCount(n) ==
    Count(producer_tx, n) + Count(consumer_tx, n) + Count(recycled_nodes, n)
        + (IF n \in leased THEN 1 ELSE 0)
\* A node in the `node` local of a running push or drain.
HandCount(n) == (IF p_node = n THEN 1 ELSE 0) + (IF c_node = n THEN 1 ELSE 0)

\* ------------------------------------------------------------------- claims
\* C1 (as amended): Conservation.  Every item passed to Producer::push is, at
\* every moment, in exactly one place: still in the forward queue (or in the
\* push about to enqueue it), or taken off it exactly once, by a
\* Consumer::pop that returned it or by a turn of Consumer::drain that
\* flushed it.  No item is taken twice and none is lost while queued.
C1_Conservation ==
    LET all == consumed \o ItemsOf(producer_tx) \o InFlight
    IN  /\ NoDup(all)
        /\ SeqToSet(all) = 1..pushed

\* C1 (original): a node leaves the forward queue only as the leased item a
\* Consumer::pop returns, so that every pushed item is returned by a pop.
C1_OnlyPopTakes ==
    [][\A i \in 1..Len(producer_tx) :
          producer_tx[i] \in SeqToSet(producer_tx') \cup leased']_vars

\* Three items were pushed and taken, the last one still leased, and the
\* producer reused a recycled node on the way.
C1_Witness ==
    /\ Len(consumed) = 3
    /\ leased # {}
    /\ src = "free"

\* C3: Exclusive ownership.  Every live node has exactly one owner among the
\* forward queue, the backward queue, the free-list and the leased items (a
\* node that a running push or drain is moving between two of them is held
\* by that call alone); a destroyed or unallocated node has none; a leased
\* node is in neither queue and not in the free-list.
C3_ExclusiveOwnership ==
    \A n \in Nodes :
        /\ OwnerCount(n) + HandCount(n) = (IF n \in Live THEN 1 ELSE 0)
        /\ n \in leased =>
               Count(producer_tx, n) + Count(consumer_tx, n)
                   + Count(recycled_nodes, n) = 0
        /\ (p_node = NoNode /\ c_node = NoNode /\ n \in Live) => OwnerCount(n) = 1

\* Three live nodes, one leased, one queued, one in the free-list.
C3_Witness ==
    /\ leased # {}
    /\ producer_tx # <<>>
    /\ recycled_nodes # <<>>
    /\ Cardinality(Live) = 3

\* C4: Capacity bound.  The free-list is never longer than the configured
\* recycling capacity; in particular when drain_and_recycle has returned.
C4_CapacityBound == Len(recycled_nodes) <= recycling_capacity

\* drain_and_recycle returned with a full free-list, having dropped a node.
C4_Witness ==
    /\ p_done = "drain_and_recycle"
    /\ p_stat.drops >= 1
    /\ recycling_capacity >= 1
    /\ Len(recycled_nodes) = recycling_capacity

\* C5 (as amended): Recycle before reuse.  Every node in the free-list holds
\* an item the recycler has been called on, so a push that takes its node
\* from the free-list replaces a recycled item; a push that takes its node
\* straight from the backward queue replaces an item that was not recycled.
C5_RecycledBeforeReuse ==
    /\ \A i \in 1..Len(recycled_nodes) : payload[recycled_nodes[i]].recycled
    /\ (p_pc = "push" /\ src = "free") => replaced.recycled
    /\ (p_pc = "push" /\ src = "rx") => ~replaced.recycled

\* C5 (original): every returned item is recycled before its node is reused.
C5_AlwaysRecycled ==
    (p_pc = "push" /\ src \in {"free", "rx"}) => replaced.recycled

\* A push reuses a free-list node; the item it replaces is one the consumer
\* returned and the recycler reset.
C5_Witness ==
    /\ p_pc = "push"
    /\ src = "free"
    /\ replaced.id >= 1
    /\ replaced.recycled

\* C8: Shrink truncation.  tune_recycling_capacity(m) on a free-list of
\* k > m nodes keeps its first m nodes and destroys the other k - m; the
\* forward queue, the backward queue, the leased items and the items of all
\* nodes in them are unchanged.
C8_ShrinkTruncation ==
    [][\A m \in Caps :
          (m < Len(recycled_nodes) /\ TuneRecyclingCapacity(m)) =>
              /\ Len(recycled_nodes') = m
              /\ recycled_nodes' = SubSeq(recycled_nodes, 1, m)
              /\ dropped' \ dropped =
                     SeqToSet(recycled_nodes) \ SeqToSet(recycled_nodes')
              /\ Cardinality(dropped' \ dropped) = Len(recycled_nodes) - m
              /\ UNCHANGED <<producer_tx, consumer_tx, leased>>
              /\ \A n \in SeqToSet(producer_tx) \cup SeqToSet(consumer_tx) \cup leased :
                     payload'[n] = payload[n]]_vars

\* A free-list of two nodes was cut to one while an item waited in the
\* forward queue.
C8_Witness ==
    /\ p_done = "tune"
    /\ p_stat.len = 2
    /\ p_stat.drops = 1
    /\ Len(recycled_nodes) = 1
    /\ producer_tx # <<>>

\* C9: Post-condition of tune_recycling_capacity(n).  The free-list is not
\* longer than n, its storage capacity is at least n and not smaller than
\* before the call, the configured capacity is n, and neither debug
\* assertion fails.
C9_TunePostCondition ==
    [][\A n \in Caps :
          TuneRecyclingCapacity(n) =>
              /\ Len(recycled_nodes') <= n
              /\ vec_capacity' >= n
              /\ recycling_capacity' = n
              /\ vec_capacity' >= vec_capacity
              /\ ~panicked']_vars

\* The capacity was lowered below the storage capacity, which did not shrink.
C9_Witness ==
    /\ p_done = "tune"
    /\ ~panicked
    /\ recycling_capacity < vec_capacity
    /\ Len(recycled_nodes) = recycling_capacity
    /\ p_stat.drops >= 1

\* C10: Empty-queue behaviour.  Consumer::pop on an empty forward queue
\* returns no item and changes nothing; drain_and_recycle called on an empty
\* backward queue returns without calling the recycler, and the free-list
\* and every item stay as they were.
C10_EmptyQueues ==
    [][/\ (ConsumerPop /\ producer_tx = <<>>) =>
              /\ c_done' = "pop_none"
              /\ UNCHANGED <<queues, freeList, heap, prodLocal, leased, c_pc,
                             c_node, history>>
       /\ (DrainAndRecycle /\ p_pc = "idle" /\ consumer_tx = <<>>) =>
              /\ p_done' = "drain_and_recycle"
              /\ p_stat'.calls = 0
              /\ UNCHANGED <<queues, freeList, heap, consHeld, history>>]_vars

\* A pop found the forward queue empty, and a drain_and_recycle call that
\* found the backward queue empty returned with the free-list still filled.
C10_Witness ==
    /\ c_done = "pop_none"
    /\ p_done = "drain_and_recycle"
    /\ p_stat.calls = 0
    /\ p_stat.drops = 0
    /\ p_stat.len = Len(recycled_nodes)
    /\ recycled_nodes # <<>>

\* C2: Order preservation.  In a scripted run the pushes of a burst are not
\* interleaved with pops; the pops that follow return the pushed items in
\* push order, whether the nodes were fresh (first burst) or came from the
\* free-list, the backward queue or a fresh allocation (second burst).
C2_OrderPreserved ==
    /\ consumed = Iota(Len(consumed))
    /\ scen.phase = "give" => consumed = Iota(scen.n)
    /\ scen.phase = "done" => consumed = Iota(pushed)

\* The second burst took one node from each source and was popped in full.
C2_Witness ==
    /\ scen.phase = "done"
    /\ scen.srcs = {"free", "rx", "alloc"}
    /\ Len(consumed) >= scen.n + 3

\* The run made its one drain_and_recycle call after all n items came back.
OneDrainAfterAll == scen.drains = 1 /\ ~scen.early

\* C6: Over-capacity scenario.  On a fresh channel of capacity c, after n > c
\* items were pushed, popped and pushed back unmodified, one
\* drain_and_recycle call calls the recycler c times, leaves c nodes in the
\* free-list and drops n - c; the next c pushes take exactly those c nodes
\* and allocate nothing, and the push after them allocates a node.
C6_OverCapacity ==
    LET c == recycling_capacity
        k == pushed - scen.n
    IN  (OneDrainAfterAll /\ scen.n > c) =>
            /\ (scen.phase = "give" /\ p_done = "drain_and_recycle") =>
                   /\ p_stat.len = 0
                   /\ p_stat.calls = c
                   /\ p_stat.drops = scen.n - c
                   /\ Len(recycled_nodes) = c
                   /\ Cardinality(dropped) = scen.n - c
            /\ (scen.phase = "refill" /\ k <= c) =>
                   /\ src = "free"
                   /\ allocated = scen.n
                   /\ p_pc = "push" => p_node \in scen.pool
                   /\ (p_pc = "idle" /\ k = c) => SeqToSet(producer_tx) = scen.pool
            /\ (scen.phase = "refill" /\ k = c + 1) =>
                   /\ src = "alloc"
                   /\ allocated = scen.n + 1

\* Capacity 2 or more: the push after the reusing ones has allocated.
C6_Witness ==
    /\ OneDrainAfterAll
    /\ recycling_capacity >= 2
    /\ scen.n > recycling_capacity
    /\ scen.phase = "refill"
    /\ pushed = scen.n + recycling_capacity + 1
    /\ p_pc = "idle"
    /\ src = "alloc"

\* C7: Node reuse round trip.  On a fresh channel of capacity 1 or more,
\* after push(A), pop, push_back and drain_and_recycle, push(B) puts B in
\* the node that carried A and allocates nothing.
C7_NodeReuseRoundTrip ==
    (OneDrainAfterAll /\ scen.n = 1 /\ recycling_capacity >= 1
         /\ scen.phase = "refill" /\ pushed = 2) =>
        /\ src = "free"
        /\ allocated = 1
        /\ p_pc = "push" => (p_node = scen.first /\ payload[p_node].id = 2)
        /\ p_pc = "idle" => (/\ producer_tx = <<scen.first>>
                             /\ payload[scen.first].id = 2)

\* B is queued in A's node.
C7_Witness ==
    /\ OneDrainAfterAll
    /\ scen.n = 1
    /\ recycling_capacity >= 1
    /\ scen.phase = "refill"
    /\ pushed = 2
    /\ p_pc = "idle"
    /\ producer_tx = <<scen.first>>
    /\ allocated = 1

\* The steps of Consumer::pop, Consumer::push_back and Consumer::drain.
ConsumerQueueStep ==
    \/ ConsumerPop
    \/ \E n \in Nodes : ConsumerPushBack(n)
    \/ ConsumerDrainPop
    \/ ConsumerDrainPush
\* Number of places that hold node n: queues, free-list, leased items, locals.
Held(n) == OwnerCount(n) + HandCount(n)

\* C11: Consumer::pop, push_back and drain create and destroy no node: the
\* live nodes are the same before and after each of their steps, and every
\* node is held in as many places as before.  They leave the free-list, the
\* recycling capacity, the payloads and the Producer's locals alone; what
\* they change is the two queues, the leased items and drain's own local.
C11_ConsumerFrame ==
    [][\/ /\ UNCHANGED <<freeList, heap, prodLocal, pushed>>
           /\ Live' = Live
           /\ \A n \in 1..allocated : Held(n)' = Held(n)
        \/ ~ConsumerQueueStep]_vars
\* A drain has moved a node while the free-list and a leased item exist.
C11_Witness ==
    /\ c_pc = "drain_pop"
    /\ consumer_tx # <<>>
    /\ recycled_nodes # <<>>
    /\ leased # {}

\* C12 (as claimed): every call to Consumer::drain eventually returns, in
\* every interleaving, a Producer that keeps calling push included.
C12_DrainReturns == (c_pc # "idle") ~> (c_pc = "idle")

\* C13: Hand-off visibility.  Forward: every node in the forward queue holds
\* exactly the item its push wrote (the k-th item pushed is the k-th taken
\* off), so the payload a pop returns is that item and never an earlier
\* payload of the node.  Backward: a node's payload is not touched while the
\* node enters, stays in or leaves the backward queue, so what
\* Recycler::recycle receives in drain_and_recycle (and what new_node takes
\* out) is the payload as the Consumer left it, mutations included.
C13_HandOff ==
    [][/\ \A i \in 1..Len(producer_tx') :
              payload'[producer_tx'[i]] = NewItem(Len(consumed') + i)
       /\ \A n \in leased' \ leased : /\ payload'[n] = payload[n]
                                      /\ payload'[n] = NewItem(Len(consumed'))
       /\ \A n \in SeqToSet(consumer_tx') : payload'[n] = payload[n]
       /\ \A n \in SeqToSet(consumer_tx) \ SeqToSet(consumer_tx') :
              \/ p_pc' = "push" /\ replaced' = payload[n]
              \/ p_pc' = "drain_and_recycle" /\ n \in dropped'
              \/ p_pc' = "drain_and_recycle" /\ payload'[n] = Recycle(payload[n])
      ]_vars
\* drain_and_recycle has recycled a node and now meets an item the Consumer
\* wrote to, while another item is leased.
C13_Witness ==
    /\ p_pc = "drain_and_recycle"
    /\ p_stat.calls >= 1
    /\ consumer_tx # <<>>
    /\ payload[Head(consumer_tx)].mutated
    /\ leased # {}

\* A leased item that ends in this step without its node entering the
\* backward queue: its node is freed at once, nobody holds it any more, and
\* no Recycler::recycle call is made.
DiscardDestroys ==
    \A n \in leased \ leased' :
        n \notin SeqToSet(consumer_tx') =>
            /\ n \in dropped'
            /\ payload'[n] = NoItem
            /\ Held(n)' = 0
            /\ p_stat' = p_stat
            /\ UNCHANGED <<recycled_nodes, producer_tx>>
\* A push that begins right after a discard.
PushAfterDiscard == c_done = "discard" /\ p_pc = "idle" /\ p_pc' = "push"

\* C14 (as claimed): a discarded leased item's node is destroyed at once,
\* without the recycler, and the Producer's next push allocates a fresh node.
C14_DiscardForcesAlloc ==
    [][/\ DiscardDestroys
       /\ PushAfterDiscard => src' = "alloc" /\ allocated' = allocated + 1]_vars
\* C14 (as amended): a discarded leased item's node is destroyed at once,
\* without the recycler; the Producer's next push allocates a fresh node
\* exactly when it finds the free-list and the backward queue empty, and
\* reuses a node of theirs otherwise.
C14_DiscardThenPush ==
    [][/\ DiscardDestroys
       /\ PushAfterDiscard =>
              /\ (src' = "alloc") <=> (recycled_nodes = <<>> /\ consumer_tx = <<>>)
              /\ allocated' = IF src' = "alloc" THEN allocated + 1 ELSE allocated
              /\ p_node' \notin dropped']_vars
\* An item was discarded, and the next push will find a node to reuse.
C14_Witness ==
    /\ c_done = "discard"
    /\ dropped # {}
    /\ recycled_nodes # <<>> \/ consumer_tx # <<>>
    /\ p_pc = "idle"
    /\ pushed < MaxPush

\* The two steps of Producer::push: taking a node, and enqueueing it.
PushTakesNode == p_pc = "idle" /\ p_pc' = "push"
PushEnqueues == p_pc = "push" /\ p_pc' = "idle"

\* C15: Node source preference of Producer::push.  The node comes from the
\* free-list whenever that is non-empty, and the backward queue is then not
\* popped; otherwise exactly one node is popped from the backward queue if
\* it has one; a node is allocated only when both are empty.  In every case
\* exactly one node, carrying the new item, is appended to the forward queue.
C15_SourcePreference ==
    [][/\ PushTakesNode =>
              /\ recycled_nodes # <<>> =>
                     /\ src' = "free"
                     /\ p_node' = recycled_nodes[Len(recycled_nodes)]
                     /\ recycled_nodes' = SubSeq(recycled_nodes, 1, Len(recycled_nodes) - 1)
                     /\ UNCHANGED <<consumer_tx, allocated>>
              /\ recycled_nodes = <<>> /\ consumer_tx # <<>> =>
                     /\ src' = "rx"
                     /\ p_node' = Head(consumer_tx)
                     /\ consumer_tx' = Tail(consumer_tx)
                     /\ UNCHANGED <<recycled_nodes, allocated>>
              /\ recycled_nodes = <<>> /\ consumer_tx = <<>> =>
                     /\ src' = "alloc"
                     /\ allocated' = allocated + 1
                     /\ p_node' = allocated'
                     /\ UNCHANGED <<recycled_nodes, consumer_tx>>
              /\ payload'[p_node'] = NewItem(pushed')
              /\ UNCHANGED producer_tx
       /\ PushEnqueues =>
              /\ producer_tx' = Append(producer_tx, p_node)
              /\ payload'[p_node] = NewItem(pushed)
              /\ UNCHANGED <<recycled_nodes, consumer_tx, allocated>>]_vars
\* A push took its node from the free-list while the backward queue held one,
\* after earlier pushes that allocated and that popped the backward queue.
C15_Witness ==
    /\ p_pc = "push"
    /\ src = "free"
    /\ consumer_tx # <<>>
    /\ allocated >= 2

\* One turn of drain_and_recycle's loop that popped a node.
RecycleTurn == p_pc' = "drain_and_recycle" /\ (p_pc = "idle" \/ p_stat' # p_stat)

\* C16: The recycler runs exactly on retention.  For each node that
\* drain_and_recycle pops, Recycler::recycle is invoked on its payload, once,
\* and the node is appended to the free-list, if and only if the free-list is
\* shorter than the recycling capacity at that moment; otherwise the node is
\* dropped and recycle is not invoked.  During and after a drain_and_recycle
\* call the number of recycle calls made in it equals the growth of the
\* free-list since the call began.
C16_RecycleOnRetention ==
    [][/\ RecycleTurn =>
              LET node == Head(consumer_tx)
                  calls == IF p_pc = "idle" THEN 0 ELSE p_stat.calls
              IN  /\ consumer_tx # <<>>
                  /\ consumer_tx' = Tail(consumer_tx)
                  /\ IF Len(recycled_nodes) < recycling_capacity
                     THEN /\ recycled_nodes' = Append(recycled_nodes, node)
                          /\ payload'[node] = Recycle(payload[node])
                          /\ p_stat'.calls = calls + 1
                          /\ node \notin dropped'
                     ELSE /\ recycled_nodes' = recycled_nodes
                          /\ payload'[node] = NoItem
                          /\ p_stat'.calls = calls
                          /\ node \in dropped'
       /\ (p_pc' = "drain_and_recycle" \/ p_done' = "drain_and_recycle") =>
              p_stat'.calls = Len(recycled_nodes') - p_stat'.len]_vars
\* A drain_and_recycle call that found a node in the free-list, recycled one
\* more and dropped another has returned.
C16_Witness ==
    /\ p_done = "drain_and_recycle"
    /\ p_stat.len >= 1
    /\ p_stat.calls >= 1
    /\ p_stat.drops >= 1

IsIn(q, n) == \E i \in 1..Len(q) : q[i] = n
\* The state of a node.  A node in the `node` local of a push counts as
\* Queued and one in the `node` local of a drain as Returned: each is on its
\* way there and nothing else can happen to it.
NodeState(n) ==
    IF n \in dropped THEN "Dropped"
    ELSE IF n > allocated THEN "New"
    ELSE IF IsIn(recycled_nodes, n) THEN "Free"
    ELSE IF n = p_node \/ IsIn(producer_tx, n) THEN "Queued"
    ELSE IF n \in leased THEN "Leased"
    ELSE IF n = c_node \/ IsIn(consumer_tx, n) THEN "Returned"
    ELSE "Lost"
\* The transitions of the node state machine as the claim lists them.
ClaimedTransitions ==
    { <<"Free", "Queued">>, <<"New", "Queued">>, <<"Queued", "Leased">>,
      <<"Leased", "Returned">>, <<"Returned", "Free">>,
      <<"Leased", "Dropped">>, <<"Returned", "Dropped">> }
\* The transitions the code adds: new_node reusing a node straight from the
\* backward queue, tune_recycling_capacity truncating the free-list, and
\* Consumer::drain handing a node back without leasing it.
CodeTransitions ==
    ClaimedTransitions \cup
    { <<"Returned", "Queued">>, <<"Free", "Dropped">>, <<"Queued", "Returned">> }
\* Nodes beyond those allocated after the step are New before and after it.
Moves(allowed) ==
    \/ UNCHANGED <<queues, recycled_nodes, leased, p_node, c_node, allocated, dropped>>
    \/ \A n \in 1..allocated' :
           LET from == NodeState(n)
               to == NodeState(n)'
           IN  from = to \/ <<from, to>> \in allowed

\* C17 (as claimed): every state change of a node is one of Free->Queued,
\* (new)->Queued, Queued->Leased, Leased->Returned, Returned->Free,
\* Leased->Dropped, Returned->Dropped, and no other transition occurs.
C17_ClaimedStateMachine == [][Moves(ClaimedTransitions)]_vars
\* C17 (as amended): every state change of a node is one of those seven or
\* Returned->Queued (push reuses a node of the backward queue),
\* Free->Dropped (tune_recycling_capacity discards the excess) or
\* Queued->Returned (drain); Dropped is terminal.
C17_NodeStateMachine == [][Moves(CodeTransitions)]_vars
\* A push is reusing a node straight from the backward queue, after a
\* truncation or an over-capacity drain destroyed another node.
C17_Witness ==
    /\ p_pc = "push"
    /\ src = "rx"
    /\ NodeState(p_node) = "Queued"
    /\ dropped # {}

\* q without its first k elements.
Drop(q, k) == SubSeq(q, k + 1, Len(q))
IsSuffix(p, q) == Len(p) <= Len(q) /\ p = Drop(q, Len(q) - Len(p))
\* The node in the `node` local of Consumer::drain, as a sequence.
InHand == IF c_node = NoNode THEN <<>> ELSE <<c_node>>

\* C18: Effect of Consumer::drain while no push runs.  During the call the
\* nodes it has pushed back, the one in its hand and the rest of the forward
\* queue are the forward queue as the call found it, in that order; they
\* reach the backward queue behind what was there, in forward order (the
\* Producer's drain_and_recycle may already have taken nodes off its front);
\* their payloads are as the call found them until drain_and_recycle takes
\* them; no leased item and no node is created, and no node is destroyed
\* except by drain_and_recycle after it popped it.  On return the forward
\* queue is empty and every node it held has been pushed back.
C18_DrainEffect ==
    scen.phase \in {"flush", "flushed"} =>
        /\ scen.moved \o InHand \o producer_tx = scen.fwd0
        /\ IsSuffix(consumer_tx, scen.bwd0 \o scen.moved)
        /\ \A n \in SeqToSet(InHand \o producer_tx \o consumer_tx) :
               payload[n] = scen.pay0[n]
        /\ leased = scen.leased0
        /\ Live \subseteq scen.live0
        /\ scen.live0 \ Live \subseteq
               SeqToSet(scen.bwd0 \o scen.moved) \ SeqToSet(consumer_tx)
        /\ scen.phase = "flushed" =>
               /\ c_pc = "idle"
               /\ producer_tx = <<>>
               /\ scen.moved = scen.fwd0
\* A drain that found two items or more, next to a leased item, has returned
\* while drain_and_recycle was at work.
C18_Witness ==
    /\ scen.phase = "flushed"
    /\ Len(scen.fwd0) >= 2
    /\ scen.leased0 # {}
    /\ p_pc = "drain_and_recycle"
    /\ dropped # {}

\* C19: every call to Producer::drain_and_recycle returns, whatever the
\* Consumer does meanwhile: the Producer pushes nothing while it is inside
\* the call, so the Consumer can hand back only the nodes that are in the
\* forward queue or leased, and the backward queue is eventually seen empty.
C19_DrainAndRecycleReturns == (p_pc = "drain_and_recycle") ~> (p_pc = "idle")
\* A drain_and_recycle call that retained a node has returned while a
\* Consumer::drain was running and a node had been destroyed.
C19_Witness ==
    /\ p_pc = "idle"
    /\ p_done = "drain_and_recycle"
    /\ recycled_nodes # <<>>
    /\ c_pc # "idle"
    /\ dropped # {}

\* C20: FIFO under interleaving.  At every moment the items taken off the
\* forward queue so far (returned by Consumer::pop, or flushed by
\* Consumer::drain, in the order taken) are the first items pushed, in push
\* order: item k + 1 is never taken before item k and none is skipped.
C20_FifoPrefix ==
    /\ Len(consumed) <= pushed
    /\ \A k \in 1..Len(consumed) : consumed[k] = k
\* Three items were taken, by pops and by a drain, while the Producer reused
\* a node straight from the backward queue.
C20_Witness ==
    /\ Len(consumed) >= 3
    /\ src = "rx"
    /\ leased # {}
    /\ c_pc = "drain_pop"

====
